---- MODULE Spec2Model ----
(***************************************************************************)
(* corosexport: the incremental backup of a vendor's activity list.       *)
(*                                                                         *)
(* The model follows src/src/corosexport/backup.py (BackupManager),        *)
(* client.py (CorosClient) and models.py.  One backup directory holds one  *)
(* checkpoint file; managers (one per process) are constructed on it, run  *)
(* run_backup step by step (one action per vendor request or file write)   *)
(* and exit.  The vendor's responses and the file system's outcomes are    *)
(* inputs, drawn with \E in the action that receives them.                 *)
(***************************************************************************)
EXTENDS Integers, Sequences, FiniteSets, TLC

\* ------------------------------------------------------------------ bounds

\* run_backup invocations in one behaviour; the wall clock read by
\* datetime.now() advances by one at the start of each.
MaxRuns == 2
\* raw activity records one listing carries, over all its pages
MaxActivities == 2
\* pages the vendor announces in totalPage
MaxPages == 2
\* total_activities_backed_up of an arbitrary BackupState (round trip)
MaxTotal == 2
\* the vendor sport type codes 0..MaxCode are tried, besides those of the
\* mapping table and 999
MaxCode == 110
\* records one listing page carries at most: the page size the client asks
\* for, 200 in client.py:127, scaled down
MaxSize == 1

\* ------------------------------------------------------------- vocabulary

ActivityIds == {"a1", "a2"}
Managers == {"m1", "m2"}

\* Python's None, and a key absent from a JSON object
None == "None"
Missing == "missing"

\* the "result" codes of a vendor response (client.py:76-84)
ResultCodes == {"0000", "1019", "5000", Missing}

\* ExportFormat values (models.py:61-67) a manager is configured with
DefaultFormats == <<"fit", "tcx">>
\* the formats argument of BackupManager(...): None, one format, one format
\* given twice (the CLI's --format is repeatable)
FormatArgs == {<<>>, <<"gpx">>, <<"fit", "fit">>}
ExportFormats == {"fit", "tcx", "gpx"}

Range(s) == {s[k] : k \in 1..Len(s)}

\* the orders list(a_set) can produce
Orderings(S) == {s \in [1..Cardinality(S) -> S] : Range(s) = S}

RECURSIVE SeqsUpTo(_, _)
SeqsUpTo(S, n) ==
    IF n = 0 THEN {<<>>}
    ELSE LET shorter == SeqsUpTo(S, n - 1)
         IN shorter \cup {Append(s, x) : s \in {t \in shorter : Len(t) = n - 1}, x \in S}

\* occurrences of x in the sequence s
Count(s, x) == Cardinality({k \in 1..Len(s) : s[k] = x})

\* ------------------------------------------------------------ BackupState

\* models.py:115-132
BackupState(ts, total, last, ids) ==
    [last_backup_timestamp |-> ts,
     total_activities_backed_up |-> total,
     last_synced_activity_id |-> last,
     downloaded_activity_ids |-> ids]

\* the state of a manager that does not exist
NoState == BackupState(-1, 0, None, {})

\* backup.py:68-73
FreshState(t) == BackupState(t, 0, None, {})

\* datetime.isoformat() / datetime.fromisoformat()
IsoFormat(t) == <<"iso", t>>
FromIsoFormat(s) == s[2]

\* ---------------------------------------------------------- checkpoint file

\* The checkpoint file's content.  kind: "absent" (no file), "invalid_json"
\* (text json.load rejects), "object" (the JSON object _save_state writes),
\* "no_timestamp" (a JSON object without last_backup_timestamp),
\* "bad_timestamp" (one whose timestamp fromisoformat rejects), "not_object"
\* (JSON that is a list, not an object).
FileOf(kind, ts, total, last, ids) ==
    [kind |-> kind, last_backup_timestamp |-> ts, total_activities_backed_up |-> total,
     last_synced_activity_id |-> last, downloaded_activity_ids |-> ids]

AbsentFile == FileOf("absent", <<"none", 0>>, 0, None, <<>>)
InvalidJsonFile == FileOf("invalid_json", <<"none", 0>>, 0, None, <<>>)
NoTimestampFile == FileOf("no_timestamp", <<"none", 0>>, 0, None, <<>>)
BadTimestampFile == FileOf("bad_timestamp", <<"none", 0>>, 0, None, <<>>)
NotObjectFile == FileOf("not_object", <<"none", 0>>, 0, None, <<>>)

\* the dictionary without last_synced_activity_id
StateToJsonNoLast(st, order) ==
    FileOf("object", IsoFormat(st.last_backup_timestamp), st.total_activities_backed_up,
           None, order)

\* backup.py:78-83: the dictionary json.dump writes; order is the order
\* list(set) happened to produce
StateToJson(st, order) ==
    FileOf("object", IsoFormat(st.last_backup_timestamp), st.total_activities_backed_up,
           st.last_synced_activity_id, order)

\* _load_state without the except clause of line 65
LoadStateUncaught(f, t) ==
    IF f.kind = "object"
    THEN [exc |-> "none",
          state |-> BackupState(FromIsoFormat(f.last_backup_timestamp),
                                f.total_activities_backed_up,
                                f.last_synced_activity_id,
                                Range(f.downloaded_activity_ids))]
    ELSE IF f.kind = "invalid_json"
    THEN [exc |-> "JSONDecodeError", state |-> NoState]
    ELSE IF f.kind = "no_timestamp" THEN [exc |-> "KeyError", state |-> NoState]
    ELSE IF f.kind = "bad_timestamp" THEN [exc |-> "ValueError", state |-> NoState]
    ELSE IF f.kind = "not_object" THEN [exc |-> "TypeError", state |-> NoState]
    ELSE [exc |-> "none", state |-> FreshState(t)]

\* backup.py:44-73: _load_state.  exc is the exception that leaves it.
LoadState(f, t) ==
    IF f.kind = "object"
    THEN [exc |-> "none",
          state |-> BackupState(FromIsoFormat(f.last_backup_timestamp),
                                f.total_activities_backed_up,
                                f.last_synced_activity_id,
                                Range(f.downloaded_activity_ids))]
    \* backup.py:65 catches JSONDecodeError and IOError only: the KeyError of
    \* data["last_backup_timestamp"], the ValueError of fromisoformat and the
    \* TypeError of indexing a list with a string leave _load_state
    ELSE IF f.kind = "no_timestamp" THEN [exc |-> "KeyError", state |-> NoState]
    ELSE IF f.kind = "bad_timestamp" THEN [exc |-> "ValueError", state |-> NoState]
    ELSE IF f.kind = "not_object" THEN [exc |-> "TypeError", state |-> NoState]
    ELSE \* no file (backup.py:50), or JSONDecodeError caught (backup.py:65)
         [exc |-> "none", state |-> FreshState(t)]

\* the update without line 121
MarkDownloadedNoCount(st, id) ==
    [st EXCEPT !.downloaded_activity_ids = @ \cup {id},
               !.last_synced_activity_id = id]

\* the update without line 119
MarkDownloadedNoAdd(st, id) ==
    [st EXCEPT !.last_synced_activity_id = id,
               !.total_activities_backed_up = @ + 1]

\* backup.py:119-121: the state after an activity was downloaded
MarkDownloaded(st, id) ==
    [st EXCEPT !.downloaded_activity_ids = @ \cup {id},
               !.last_synced_activity_id = id,
               !.total_activities_backed_up = @ + 1]

\* the dedup test against the last synced id instead of the set
AlreadyDownloadedLastOnly(st, id) == id = st.last_synced_activity_id

\* a dedup test that finds nothing
AlreadyDownloadedNever(st, id) == FALSE

\* backup.py:113: the dedup test
AlreadyDownloaded(st, id) == id \in st.downloaded_activity_ids

\* ------------------------------------------------------------------ client

\* client.py:57: the default of the timeout parameter
DefaultTimeout == 30

\* client.py:57-64: CorosClient(email, password, timeout)
ClientOf(t) == [accesstoken |-> None, user_id |-> None, timeout |-> t]
NewClient == ClientOf(DefaultTimeout)

\* client.py:124, 176: "if not self.accesstoken"
Authenticated(cl) == cl.accesstoken # None

\* the check without the case of line 81
CheckApiResponseNoAuth(result) ==
    IF result = "0000" THEN "none" ELSE "CorosAPIError"

\* the check with an absent result code taken for success
CheckApiResponseLenient(result) ==
    IF result \in {"0000", Missing} THEN "none"
    ELSE IF result = "1019" THEN "CorosAuthError"
    ELSE "CorosAPIError"

\* client.py:66-84: the exception _check_api_response raises for a result code
CheckApiResponse(result) ==
    IF result = "0000" THEN "none"
    ELSE IF result = "1019" THEN "CorosAuthError"
    ELSE "CorosAPIError"

\* the login endpoint's answers: HTTP status, result code, and the
\* accessToken and userId of the envelope's data (Missing: no such key)
LoginResponse(status, result, accessToken, userId) ==
    [status |-> status, result |-> result, accessToken |-> accessToken, userId |-> userId]
LoginResponses ==
    {LoginResponse("err", "0000", Missing, Missing)}
    \cup {LoginResponse("ok", r, Missing, Missing) : r \in ResultCodes \ {"0000"}}
    \cup {LoginResponse("ok", "0000", "token", "uid"),
          LoginResponse("ok", "0000", "token", Missing),
          LoginResponse("ok", "0000", Missing, "uid")}

\* authenticate with the session assigned before the result code is read
AuthenticateEager(cl, resp) ==
    IF resp.status = "err" THEN [exc |-> "CorosAuthError", client |-> cl]
    ELSE IF resp.result # "0000"
    THEN [exc |-> "CorosAuthError",
          client |-> [cl EXCEPT !.accesstoken = "token", !.user_id = "uid"]]
    ELSE IF resp.accessToken = Missing THEN [exc |-> "KeyError", client |-> cl]
    ELSE IF resp.userId = Missing
    THEN [exc |-> "KeyError", client |-> [cl EXCEPT !.accesstoken = resp.accessToken]]
    ELSE [exc |-> "none",
          client |-> [cl EXCEPT !.accesstoken = resp.accessToken, !.user_id = resp.userId]]

\* client.py:86-121: authenticate.  A transport failure (raise_for_status
\* included) and a non-success result code both end in CorosAuthError;
\* line 112 assigns the token before line 113 reads the user id, and a
\* KeyError of either is not caught.
Authenticate(cl, resp) ==
    IF resp.status = "err" THEN [exc |-> "CorosAuthError", client |-> cl]
    ELSE IF resp.result # "0000" THEN [exc |-> "CorosAuthError", client |-> cl]
    ELSE IF resp.accessToken = Missing THEN [exc |-> "KeyError", client |-> cl]
    ELSE IF resp.userId = Missing
    THEN [exc |-> "KeyError", client |-> [cl EXCEPT !.accesstoken = resp.accessToken]]
    ELSE [exc |-> "none",
          client |-> [cl EXCEPT !.accesstoken = resp.accessToken, !.user_id = resp.userId]]

\* a raw record of the vendor's dataList: one per activity, and one that
\* lacks its labelId
RawRecord(id, start) == [labelId |-> id, startTime |-> start]
RawRecords == {RawRecord(i, "ok") : i \in ActivityIds} \cup {RawRecord(Missing, "ok")}

\* one listing page as the vendor answers it.  An answer that fails carries
\* nothing else the client reads.
ListingError(status, result) ==
    [status |-> status, result |-> result, totalPage |-> 1, dataList |-> <<>>]
ListingResponses(room, pages) ==
    {[status |-> "ok", result |-> "0000", totalPage |-> tp, dataList |-> dl] :
        tp \in pages, dl \in SeqsUpTo(RawRecords, room)}
    \cup {ListingError("err", "0000")}
    \cup {ListingError("ok", r) : r \in ResultCodes \ {"0000"}}

\* client.py:127-129: the page size asked for is at most MaxSize, and the
\* vendor answers with no more records than that; got are the records of
\* the pages before
PageRoom(got) ==
    IF MaxActivities - Len(got) < MaxSize THEN MaxActivities - Len(got) ELSE MaxSize

\* the result code of an answer that is not the success code, as the wire shows it
ObservedCode(resp) ==
    IF resp.status = "ok" /\ resp.result # "0000" THEN resp.result ELSE "none"

\* client.py:134-138, 147-150: raise_for_status, then _check_api_response
PageOutcome(resp) ==
    IF resp.status = "err" THEN "HTTPError" ELSE CheckApiResponse(resp.result)

\* client.py:153-170: each raw record becomes an ActivitySummary (here its
\* activity_id); a record whose conversion raises is logged and skipped
Converts(raw) == raw.labelId # Missing /\ raw.startTime # Missing
\* the conversion loop ended by the first record that fails
ParseActivitiesStopAtBad(raws) ==
    LET bad == {k \in 1..Len(raws) : ~Converts(raws[k])}
        stop == IF bad = {} THEN Len(raws) + 1 ELSE CHOOSE k \in bad : \A j \in bad : k <= j
    IN [k \in 1..(stop - 1) |-> raws[k].labelId]

ParseActivities(raws) ==
    LET good == SelectSeq(raws, Converts)
    IN [k \in 1..Len(good) |-> good[k].labelId]

\* the download endpoint's answer: HTTP status of the first request, whether
\* its content type is JSON, the envelope's result code, whether it carries
\* data.fileUrl, and the HTTP status of the request to that URL
DownloadResponse(status, json, result, fileUrl, hop2) ==
    [status |-> status, json |-> json, result |-> result, fileUrl |-> fileUrl, hop2 |-> hop2]
\* one answer per path through download_activity_file; a field the client
\* does not get to read has one value
DownloadResponses ==
    {DownloadResponse("err", TRUE, "0000", FALSE, "ok"),
     DownloadResponse("ok", FALSE, "0000", FALSE, "ok"),
     DownloadResponse("ok", TRUE, "0000", FALSE, "ok"),
     DownloadResponse("ok", TRUE, "0000", TRUE, "err"),
     DownloadResponse("ok", TRUE, "0000", TRUE, "ok")}
    \cup {DownloadResponse("ok", TRUE, r, FALSE, "ok") : r \in ResultCodes \ {"0000"}}

\* client.py:172-202: download_activity_file.  exc is the exception raised,
\* ret the boolean returned, wrote whether the destination file was written.
DownloadResult(exc, ret, wrote) == [exc |-> exc, ret |-> ret, wrote |-> wrote]
DownloadActivityFile(cl, resp) ==
    IF ~Authenticated(cl) THEN DownloadResult("CorosAPIError", FALSE, FALSE)
    ELSE IF resp.status = "err" THEN DownloadResult("HTTPError", FALSE, FALSE)
    ELSE IF resp.json /\ CheckApiResponse(resp.result) # "none"
         THEN DownloadResult(CheckApiResponse(resp.result), FALSE, FALSE)
    \* client.py:193 reads data, bound only inside the if of line 189
    ELSE IF ~resp.json THEN DownloadResult("UnboundLocalError", FALSE, FALSE)
    ELSE IF ~resp.fileUrl THEN DownloadResult("none", FALSE, FALSE)
    ELSE IF resp.hop2 = "err" THEN DownloadResult("HTTPError", FALSE, FALSE)
    ELSE DownloadResult("none", TRUE, TRUE)

\* ------------------------------------------------------------- statistics

\* the dictionary with a failure counted before the run
NewStatsStale ==
    [activities_found |-> 0, activities_skipped |-> 0, activities_downloaded |-> 0,
     activities_failed |-> 1, formats_downloaded |-> [f \in {"fit", "tcx", "gpx"} |-> 0]]

\* backup.py:98-104.  formats_downloaded maps a format to its count; a key
\* the code has not created yet reads 0 here.
NewStats ==
    [activities_found |-> 0, activities_skipped |-> 0, activities_downloaded |-> 0,
     activities_failed |-> 0, formats_downloaded |-> [f \in ExportFormats |-> 0]]

\* ------------------------------------------------------------------- state

VARIABLES
    now,            \* the wall clock datetime.now() reads
    file,           \* the checkpoint file of the backup directory
    ctor,           \* per manager: "none" (no such process), "ok" (constructed), or
                    \* the exception that left the constructor
    client,         \* per manager: its CorosClient session
    formats,        \* per manager: self.formats
    state,          \* per manager: self.state
    pc,             \* where the run_backup in progress stands, or how the last one ended
    cur,            \* the manager whose run_backup that is
    exc,            \* the exception that left run_backup ("none" when it returned)
    page,           \* get_activities: the next page to request
    total_pages,    \* get_activities: totalPage of the first answer
    raw,            \* get_activities: all_coros_activities
    all_activities, \* run_backup: the activity ids get_activities returned
    idx,            \* run_backup: position of the for loop in all_activities
    fmt_idx,        \* _download_activity_files: position in self.formats
    success,        \* _download_activity_files: success
    stats,          \* the module-level stats dictionary
    \* what the run did, as an observer of its calls records it
    calls,          \* calls of download_activity_file, whether each returned True,
                    \* and metadata files opened
    okFmts,         \* formats downloaded for the activity being processed
    badFmts,        \* formats whose download failed for that activity
    fdBefore,       \* formats_downloaded when that activity was taken up
    listed,         \* get_activities returned
    listCode,       \* the non-success result code a listing answer carried
    saved,          \* the outcome of the run's checkpoint write
    fileAtStart,    \* the checkpoint file when the run started
    idsAtStart,     \* the manager's dedup set when the run started
    \* the run before
    hist,           \* the last finished run: whether it returned, with failures, its listing
    repeat,         \* the run in progress repeats it: same listing, state from its result
    knows,          \* per manager: its state includes the last finished run's result
    aborted,        \* per manager: the ids its runs that raised added to its dedup
                    \* set, since its last run that wrote the checkpoint
    \* calls made on the client and the models directly, and the command line
    call,           \* the last such call: what was called, on what, and how it ended
    authOk,         \* per manager: authenticate has returned True on its client
    proc,           \* the coros-backup command: where main stands, what it returned
    saves           \* checkpoint writes under way (file opened, content not yet
                    \* written) and who completed the last one

runVars == <<pc, cur, exc, page, total_pages, raw, all_activities, idx, fmt_idx, success, stats>>
obsVars == <<calls, okFmts, badFmts, fdBefore, listed, listCode, saved, fileAtStart, idsAtStart>>
histVars == <<hist, repeat, knows, aborted>>
auxVars == <<call, authOk, proc, saves>>
vars == <<now, file, ctor, client, formats, state, runVars, obsVars, histVars, auxVars>>

Running == pc \in {"listing", "loop", "formats"}
Alive(m) == ctor[m] = "ok"
NoCalls == [download |-> 0, metadata |-> 0, allTrue |-> TRUE]
NoCounts == [f \in ExportFormats |-> 0]
NoHist == [kind |-> "none", listing |-> <<>>, inFile |-> FALSE]

\* a call and its outcome; reqs are the HTTP requests the call sent
CallOf(op, arg, e, ret, wrote, reqs) ==
    [op |-> op, arg |-> arg, exc |-> e, ret |-> ret, wrote |-> wrote, reqs |-> reqs]
NoCall == CallOf("none", [status |-> "none", result |-> "none"], "none", FALSE, FALSE, <<>>)

\* the coros-backup command: the step main has reached, its formats list,
\* how it ended (why), the value it returned (-1: none), the exception that
\* left it, and the exit status of the process (-1: still running)
ProcOf(step, fmts, why, ret, e, code) ==
    [step |-> step, formats |-> fmts, why |-> why, ret |-> ret, exc |-> e, code |-> code]
\* the command has not been started
NoProc == ProcOf("none", <<>>, "none", -1, "none", -1)

\* the content a manager is about to write, when it has none
NoPending == FileOf("none", <<"none", 0>>, 0, None, <<>>)

\* no checkpoint write under way and none completed.  dirty[m]: another
\* manager opened or wrote the file after m opened it and before m wrote; last, ok, overlap:
\* the manager whose write completed last, whether it succeeded, whether it
\* was dirty; savers: the managers that completed a write
NoSaves ==
    [pending |-> [m \in Managers |-> NoPending], dirty |-> [m \in Managers |-> FALSE],
     last |-> None, ok |-> FALSE, overlap |-> FALSE, savers |-> {}]

NoAux ==
    /\ call = NoCall
    /\ authOk = [m \in Managers |-> FALSE]
    /\ proc = NoProc
    /\ saves = NoSaves

\* the checkpoint files a backup directory starts with
InitialFiles == {AbsentFile, InvalidJsonFile, NoTimestampFile, BadTimestampFile, NotObjectFile}

\* no run_backup in progress and no result of one at hand
NoRunYet ==
    /\ pc = "idle"
    /\ exc = "none"
    /\ page = 0
    /\ total_pages = 0
    /\ raw = <<>>
    /\ all_activities = <<>>
    /\ idx = 0
    /\ fmt_idx = 0
    /\ success = FALSE
    /\ stats = NewStats
    /\ calls = NoCalls
    /\ okFmts = {}
    /\ badFmts = {}
    /\ fdBefore = NoCounts
    /\ listed = FALSE
    /\ listCode = "none"
    /\ saved = "none"
    /\ idsAtStart = {}
    /\ repeat = "no"

Init ==
    /\ now = 0
    /\ file \in InitialFiles
    /\ ctor = [m \in Managers |-> "none"]
    /\ client = [m \in Managers |-> NewClient]
    /\ formats = [m \in Managers |-> <<>>]
    /\ state = [m \in Managers |-> NoState]
    /\ cur = "m1"
    /\ NoRunYet
    /\ fileAtStart = file
    /\ hist = NoHist
    /\ knows = [m \in Managers |-> FALSE]
    /\ aborted = [m \in Managers |-> {}]
    /\ NoAux

\* ---------------------------------------------------------------- lifecycle

\* backup.py:35: "formats or [FIT, TCX]"
ConfiguredFormats(fa) == IF fa = <<>> THEN DefaultFormats ELSE fa

\* backup.py:20-42: a process creates its client and BackupManager(client,
\* backup_dir, formats); the constructor loads the checkpoint
Construct(m) ==
    /\ UNCHANGED auxVars
    /\ ctor[m] = "none"
    /\ IF LoadState(file, now).exc = "none"
       THEN /\ \E fa \in FormatArgs :
                  formats' = [formats EXCEPT ![m] = ConfiguredFormats(fa)]
            /\ ctor' = [ctor EXCEPT ![m] = "ok"]
            /\ state' = [state EXCEPT ![m] = LoadState(file, now).state]
            /\ knows' = [knows EXCEPT ![m] = hist.inFile]
       ELSE /\ ctor' = [ctor EXCEPT ![m] = LoadState(file, now).exc]
            /\ UNCHANGED <<formats, state, knows>>
    /\ UNCHANGED <<now, file, client, runVars, obsVars, hist, repeat, aborted>>

\* client.py:86-121, called by the process that owns the client
AuthenticateCall(m) ==
    /\ Alive(m)
    /\ ~(Running /\ cur = m)
    /\ \E resp \in LoginResponses :
        /\ client' = [client EXCEPT ![m] = Authenticate(client[m], resp).client]
        /\ authOk' = [authOk EXCEPT ![m] = @ \/ Authenticate(client[m], resp).exc = "none"]
    /\ UNCHANGED <<call, proc, saves>>
    /\ UNCHANGED <<now, file, ctor, formats, state, runVars, obsVars, histVars>>

\* what a run_backup left behind is dropped
ForgetRun ==
    /\ pc' = "idle"
    /\ exc' = "none"
    /\ page' = 0
    /\ total_pages' = 0
    /\ raw' = <<>>
    /\ all_activities' = <<>>
    /\ idx' = 0
    /\ fmt_idx' = 0
    /\ success' = FALSE
    /\ stats' = NewStats
    /\ calls' = NoCalls
    /\ okFmts' = {}
    /\ badFmts' = {}
    /\ fdBefore' = NoCounts
    /\ listed' = FALSE
    /\ listCode' = "none"
    /\ saved' = "none"
    /\ idsAtStart' = {}
    /\ repeat' = "no"

\* the process ends: its manager and client are gone, and so is what its
\* last run_backup returned
Exit(m) ==
    /\ authOk' = [authOk EXCEPT ![m] = FALSE]
    /\ UNCHANGED <<call, proc, saves>>
    /\ ctor[m] # "none"
    /\ ~(Running /\ cur = m)
    /\ ctor' = [ctor EXCEPT ![m] = "none"]
    /\ client' = [client EXCEPT ![m] = NewClient]
    /\ formats' = [formats EXCEPT ![m] = <<>>]
    /\ state' = [state EXCEPT ![m] = NoState]
    /\ knows' = [knows EXCEPT ![m] = FALSE]
    /\ aborted' = [aborted EXCEPT ![m] = {}]
    /\ IF m = cur /\ ~Running
       THEN /\ ForgetRun
            /\ fileAtStart' = file
            /\ UNCHANGED cur
       ELSE UNCHANGED <<runVars, obsVars, repeat>>
    /\ UNCHANGED <<now, file, hist>>

\* --------------------------------------------------------------- run_backup

\* the ids that runs of manager m that raised have added to its dedup set
\* (backup.py:175-177), unless its last run returned and wrote the
\* checkpoint (backup.py:128)
Unsaved(m) == IF pc = "returned" /\ saved = "ok" /\ cur = m THEN {} ELSE aborted[m]

\* the ids the run in progress has added to the dedup set of manager m
AddedThisRun(m) ==
    IF Running /\ cur = m THEN state[m].downloaded_activity_ids \ idsAtStart ELSE {}

\* an exception leaves run_backup (backup.py:135-137 re-raises a
\* CorosAPIError; any other exception is not caught at all)
RaiseOut(m, e) ==
    /\ pc' = "raised"
    /\ exc' = e
    /\ knows' = [k \in Managers |-> k = m]
    /\ aborted' = [aborted EXCEPT ![m] = Unsaved(m) \cup AddedThisRun(m)]
    /\ hist' = NoHist

\* client.py:153-170 and backup.py:107-108: the listing is complete
ListingDone(raws, h) ==
    /\ all_activities' = ParseActivities(raws)
    /\ stats' = [NewStats EXCEPT !.activities_found = Len(ParseActivities(raws))]
    /\ pc' = "loop"
    /\ idx' = 1
    /\ raw' = <<>>
    /\ page' = 0
    /\ total_pages' = 0
    /\ listed' = TRUE
    /\ repeat' = IF h.kind # "none" /\ h.listing = ParseActivities(raws) THEN h.kind ELSE "no"
    /\ hist' = NoHist

\* backup.py:96-108 with client.py:123-143: run_backup starts, get_activities
\* checks the session and requests the first page
StartRun(m) ==
    /\ UNCHANGED auxVars
    /\ Alive(m)
    /\ ~Running
    /\ now < MaxRuns
    /\ now' = now + 1
    /\ cur' = m
    /\ fileAtStart' = file
    /\ idsAtStart' = state[m].downloaded_activity_ids
    /\ calls' = NoCalls
    /\ okFmts' = {}
    /\ badFmts' = {}
    /\ fdBefore' = NoCounts
    /\ saved' = "none"
    /\ fmt_idx' = 0
    /\ success' = FALSE
    /\ LET h == IF knows[m] THEN hist ELSE NoHist
           abort(e, code) ==
               /\ RaiseOut(m, e)
               /\ listCode' = code
               /\ all_activities' = <<>>
               /\ stats' = NewStats
               /\ page' = 0
               /\ total_pages' = 0
               /\ raw' = <<>>
               /\ idx' = 0
               /\ listed' = FALSE
               /\ repeat' = "no"
       IN IF ~Authenticated(client[m])
          THEN abort("CorosAPIError", "none")
          ELSE \E resp \in ListingResponses(PageRoom(<<>>), 1..MaxPages) :
               IF PageOutcome(resp) # "none"
               THEN abort(PageOutcome(resp), ObservedCode(resp))
               ELSE /\ listCode' = ObservedCode(resp)
                    /\ exc' = "none"
                    /\ UNCHANGED knows
                    /\ aborted' = [aborted EXCEPT ![m] = Unsaved(m)]
                    /\ IF resp.totalPage <= 1
                       THEN ListingDone(resp.dataList, h)
                       ELSE /\ pc' = "listing"
                            /\ page' = 2
                            /\ total_pages' = resp.totalPage
                            /\ raw' = resp.dataList
                            /\ all_activities' = <<>>
                            /\ stats' = NewStats
                            /\ idx' = 0
                            /\ listed' = FALSE
                            /\ repeat' = "no"
                            /\ hist' = h
    /\ UNCHANGED <<file, ctor, client, formats, state>>

\* client.py:145-151: one follow-up page.  totalPage was read from the
\* first answer only.
ListNextPage ==
    /\ UNCHANGED auxVars
    /\ pc = "listing"
    /\ \E resp \in ListingResponses(PageRoom(raw), {1}) :
        IF PageOutcome(resp) # "none"
        THEN /\ RaiseOut(cur, PageOutcome(resp))
             /\ listCode' = ObservedCode(resp)
             /\ raw' = <<>>
             /\ page' = 0
             /\ UNCHANGED <<total_pages, all_activities, idx, stats, listed, repeat>>
        ELSE /\ UNCHANGED <<exc, knows, aborted>>
             /\ listCode' = ObservedCode(resp)
             /\ IF page >= total_pages
                THEN ListingDone(raw \o resp.dataList, hist)
                ELSE /\ page' = page + 1
                     /\ raw' = raw \o resp.dataList
                     /\ UNCHANGED <<pc, total_pages, all_activities, idx, stats, listed,
                                    repeat, hist>>
    /\ UNCHANGED <<now, file, ctor, client, formats, state, cur, fmt_idx,
                   success, calls, okFmts, badFmts, fdBefore, saved, fileAtStart,
                   idsAtStart>>

\* backup.py:112-116 and 139-160: the loop takes the next activity; one
\* already downloaded is skipped, for any other _download_activity_files
\* starts by opening the metadata file (a failed write is only logged)
ProcessActivity ==
    /\ UNCHANGED auxVars
    /\ pc = "loop"
    /\ idx <= Len(all_activities)
    /\ IF AlreadyDownloaded(state[cur], all_activities[idx])
       THEN /\ stats' = [stats EXCEPT !.activities_skipped = @ + 1]
            /\ idx' = idx + 1
            /\ UNCHANGED <<pc, fmt_idx, success, calls, fdBefore>>
       ELSE /\ calls' = [calls EXCEPT !.metadata = @ + 1]
            /\ pc' = "formats"
            /\ fmt_idx' = 1
            /\ success' = FALSE
            /\ fdBefore' = stats.formats_downloaded
            /\ UNCHANGED <<stats, idx>>
    /\ UNCHANGED <<now, file, ctor, client, formats, state, cur, exc, page, total_pages,
                   raw, all_activities, okFmts, badFmts, listed, listCode, saved,
                   fileAtStart, idsAtStart, histVars>>

\* backup.py:167-179: a call of download_activity_file that does not raise
\* sets success and counts the format, whatever it returned
CountsAsDownloaded(r) == r.exc = "none"

\* backup.py:181: the exceptions the loop over the formats catches
CaughtPerFormat(e) == e = "CorosAPIError"

\* the count set to one instead of incremented
CountFormatOnce(st, f) == [st EXCEPT !.formats_downloaded[f] = 1]

\* backup.py:177-179
CountFormat(st, f) == [st EXCEPT !.formats_downloaded[f] = @ + 1]

\* backup.py:163-182: one format of the activity
DownloadFormat ==
    /\ UNCHANGED auxVars
    /\ pc = "formats"
    /\ fmt_idx <= Len(formats[cur])
    /\ LET f == formats[cur][fmt_idx]
       IN \E resp \in DownloadResponses :
           LET r == DownloadActivityFile(client[cur], resp)
           IN /\ calls' = [calls EXCEPT !.download = @ + 1, !.allTrue = @ /\ r.ret]
              /\ okFmts' = IF r.ret THEN okFmts \cup {f} ELSE okFmts
              /\ badFmts' = IF r.ret THEN badFmts ELSE badFmts \cup {f}
              /\ IF CountsAsDownloaded(r)
                 THEN /\ success' = TRUE
                      /\ stats' = CountFormat(stats, f)
                      /\ fmt_idx' = fmt_idx + 1
                      /\ UNCHANGED <<pc, exc, knows, hist, aborted>>
                 ELSE IF CaughtPerFormat(r.exc)
                 THEN /\ fmt_idx' = fmt_idx + 1
                      /\ UNCHANGED <<pc, exc, knows, hist, aborted, success, stats>>
                 ELSE /\ RaiseOut(cur, r.exc)
                      /\ UNCHANGED <<fmt_idx, success, stats>>
    /\ UNCHANGED <<now, file, ctor, client, formats, state, cur, page, total_pages, raw,
                   all_activities, idx, fdBefore, listed, listCode, saved, fileAtStart,
                   idsAtStart, repeat>>

\* backup.py:184 and 118-124: _download_activity_files returns success and
\* run_backup records the activity as downloaded or failed
FinishActivity ==
    /\ UNCHANGED auxVars
    /\ pc = "formats"
    /\ fmt_idx > Len(formats[cur])
    /\ IF success
       THEN /\ state' = [state EXCEPT ![cur] = MarkDownloaded(state[cur], all_activities[idx])]
            /\ stats' = [stats EXCEPT !.activities_downloaded = @ + 1]
       ELSE /\ stats' = [stats EXCEPT !.activities_failed = @ + 1]
            /\ UNCHANGED state
    /\ idx' = idx + 1
    /\ pc' = "loop"
    /\ fmt_idx' = 0
    /\ success' = FALSE
    /\ okFmts' = {}
    /\ badFmts' = {}
    /\ fdBefore' = NoCounts
    /\ UNCHANGED <<now, file, ctor, client, formats, cur, exc, page, total_pages, raw,
                   all_activities, calls, listed, listCode, saved, fileAtStart,
                   idsAtStart, histVars>>

\* the outcomes of writing the checkpoint: written; open() failed and the
\* file is as it was; the write failed after open() truncated the file
WriteOutcomes == {"ok", "open_failed", "write_failed"}

\* _save_state that leaves the new content behind although the write failed
SaveStateKeepsContent(st, f, w, order) == StateToJson(st, order)

\* backup.py:75-88: _save_state, the file afterwards.  An IOError is logged.
SaveState(st, f, w, order) ==
    IF w = "ok" THEN StateToJson(st, order)
    ELSE IF w = "open_failed" THEN f
    ELSE InvalidJsonFile

\* backup.py:127: the timestamp of the run
StampState(st, t) == [st EXCEPT !.last_backup_timestamp = t]

\* the save reached from anywhere in the loop
LoopEndedOrNot(i, acts) == TRUE

\* backup.py:112-126: the for loop has gone through all_activities
LoopEnded(i, acts) == i > Len(acts)

\* backup.py:126-133: after the loop, stamp, save and return the statistics
FinishRun ==
    /\ UNCHANGED auxVars
    /\ pc = "loop"
    /\ LoopEnded(idx, all_activities)
    /\ LET st == StampState(state[cur], now)
       IN /\ state' = [state EXCEPT ![cur] = st]
          /\ \E w \in WriteOutcomes, order \in Orderings(st.downloaded_activity_ids) :
                /\ file' = SaveState(st, file, w, order)
                /\ saved' = w
    /\ pc' = "returned"
    /\ knows' = [k \in Managers |-> k = cur]
    /\ hist' = [kind |-> IF stats.activities_failed = 0 THEN "clean" ELSE "failed",
                listing |-> all_activities, inFile |-> saved' = "ok"]
    /\ UNCHANGED <<now, ctor, client, formats, cur, exc, page, total_pages, raw,
                   all_activities, idx, fmt_idx, success, stats, calls, okFmts, badFmts,
                   fdBefore, listed, listCode, fileAtStart, idsAtStart, repeat, aborted>>

\* one process at a time uses the backup directory
Sequential == {"m1"}

Next ==
    \/ \E m \in Sequential : Construct(m)
    \/ \E m \in Sequential : AuthenticateCall(m)
    \/ \E m \in Sequential : Exit(m)
    \/ \E m \in Sequential : StartRun(m)
    \/ ListNextPage
    \/ ProcessActivity
    \/ DownloadFormat
    \/ FinishActivity
    \/ FinishRun

Spec == Init /\ [][Next]_vars

\* ------------------------------------------------- save and load, directly

BackupStates ==
    {BackupState(ts, total, last, ids) :
        ts \in 0..MaxRuns, total \in 0..MaxTotal,
        last \in ActivityIds \cup {None}, ids \in SUBSET ActivityIds}

\* manager m1 holds an arbitrary BackupState
InitRoundTrip ==
    /\ now = 0
    /\ file \in InitialFiles
    /\ ctor = [m \in Managers |-> IF m = "m1" THEN "ok" ELSE "none"]
    /\ client = [m \in Managers |-> NewClient]
    /\ formats = [m \in Managers |-> IF m = "m1" THEN DefaultFormats ELSE <<>>]
    /\ \E st \in BackupStates : state = [m \in Managers |-> IF m = "m1" THEN st ELSE NoState]
    /\ cur = "m1"
    /\ NoRunYet
    /\ fileAtStart = file
    /\ hist = NoHist
    /\ knows = [m \in Managers |-> FALSE]
    /\ aborted = [m \in Managers |-> {}]
    /\ NoAux

\* backup.py:75-88: _save_state called on its own
SaveStateCall(m) ==
    /\ UNCHANGED auxVars
    /\ Alive(m)
    /\ ~Running
    /\ \E w \in WriteOutcomes, order \in Orderings(state[m].downloaded_activity_ids) :
          /\ file' = SaveState(state[m], file, w, order)
          /\ saved' = w
    /\ UNCHANGED <<now, ctor, client, formats, state, runVars, calls, okFmts, badFmts,
                   fdBefore, listed, listCode, fileAtStart, idsAtStart, histVars>>

NextRoundTrip ==
    \/ SaveStateCall("m1")
    \/ Construct("m2")
    \/ Exit("m2")

SpecRoundTrip == InitRoundTrip /\ [][NextRoundTrip]_vars

\* ------------------------------------- two processes on one directory

\* open(state_file, "w") that leaves the old content in place
NotTruncated(f) == f

\* backup.py:84: open(state_file, "w") empties the file
Truncated(f) == InvalidJsonFile

\* the length of a checkpoint file, counted in the ids it lists (the other
\* fields of two files with as many ids are as long)
Size(f) == IF f.kind = "object" THEN 1 + Len(f.downloaded_activity_ids) ELSE 0

\* backup.py:85: json.dump writes content from the start of the file its
\* open() emptied.  What another process wrote there since stays behind
\* the end of content when it was longer, and the file is no JSON then.
Overlay(content, f) == IF Size(f) > Size(content) THEN InvalidJsonFile ELSE content

\* a client after a login that succeeded
LoggedIn == [NewClient EXCEPT !.accesstoken = "token", !.user_id = "uid"]

\* two processes, each with a client that has authenticated
InitTwo ==
    /\ now = 0
    /\ file = AbsentFile
    /\ ctor = [m \in Managers |-> "none"]
    /\ client = [m \in Managers |-> LoggedIn]
    /\ formats = [m \in Managers |-> <<>>]
    /\ state = [m \in Managers |-> NoState]
    /\ cur = "m1"
    /\ NoRunYet
    /\ fileAtStart = file
    /\ hist = NoHist
    /\ knows = [m \in Managers |-> FALSE]
    /\ aborted = [m \in Managers |-> {}]
    /\ call = NoCall
    /\ authOk = [m \in Managers |-> TRUE]
    /\ proc = NoProc
    /\ saves = NoSaves

\* a manager is constructed for one format
ConstructFor(m) ==
    /\ Construct(m)
    /\ Len(formats'[m]) = 1

\* run_backup is called on a manager that is not inside one
StartRunOf(m) ==
    /\ saves.pending[m] = NoPending
    /\ StartRun(m)

\* backup.py:126-128 and 84: after the loop run_backup stamps the state and
\* _save_state opens the file.  The steps of another process come between
\* this and the write.
FinishRunOpen ==
    /\ pc = "loop"
    /\ LoopEnded(idx, all_activities)
    /\ LET st == StampState(state[cur], now)
       IN /\ state' = [state EXCEPT ![cur] = st]
          /\ \/ /\ saved' = "open_failed"
                /\ UNCHANGED <<file, saves>>
             \/ \E order \in Orderings(st.downloaded_activity_ids) :
                   /\ saved' = "opened"
                   /\ file' = Truncated(file)
                   /\ saves' = [saves EXCEPT
                         !.pending[cur] = StateToJson(st, order),
                         !.dirty = [m \in Managers |->
                                      m # cur /\ saves.pending[m] # NoPending]]
    /\ pc' = "returned"
    /\ knows' = [k \in Managers |-> k = cur]
    /\ hist' = NoHist
    /\ UNCHANGED <<now, ctor, client, formats, cur, exc, page, total_pages, raw,
                   all_activities, idx, fmt_idx, success, stats, calls, okFmts, badFmts,
                   fdBefore, listed, listCode, fileAtStart, idsAtStart, repeat, aborted,
                   call, authOk, proc>>

\* backup.py:85-88: json.dump writes and the file is closed, or the write
\* fails and the IOError is logged
WriteOut(m) ==
    /\ saves.pending[m] # NoPending
    /\ \E w \in {"ok", "write_failed"} :
        /\ file' = IF w = "ok" THEN Overlay(saves.pending[m], file) ELSE file
        /\ saves' = [saves EXCEPT
              !.pending[m] = NoPending,
              !.dirty = [k \in Managers |-> k # m /\ saves.pending[k] # NoPending],
              !.last = m,
              !.ok = (w = "ok"),
              !.overlap = saves.dirty[m],
              !.savers = @ \cup {m}]
    /\ UNCHANGED <<now, ctor, client, formats, state, runVars, obsVars, histVars,
                   call, authOk, proc>>

NextTwo ==
    \/ \E m \in Managers : ConstructFor(m)
    \/ \E m \in Managers : StartRunOf(m)
    \/ ListNextPage
    \/ ProcessActivity
    \/ DownloadFormat
    \/ FinishActivity
    \/ FinishRunOpen
    \/ \E m \in Managers : WriteOut(m)

SpecTwo == InitTwo /\ [][NextTwo]_vars

\* ------------------------------------------------- the client, directly

\* the timeouts a client is constructed with
Timeouts == {DefaultTimeout, 5}

\* a request sent without the timeout argument: requests waits without limit
NoTimeout == 0

\* an HTTP request as the session sends it, with the timeout it is given
Request(endpoint, timeout) == [endpoint |-> endpoint, timeout |-> timeout]

\* client.py:101-103: the login request is given self.timeout
AuthenticateRequests(cl) == <<Request("login", cl.timeout)>>

\* client.py:134, 147: a listing page is requested without a timeout
ListingRequest(cl) == Request("activities", NoTimeout)

\* client.py:176-197: the requests of download_activity_file for an answer;
\* neither is given a timeout
DownloadRequests(cl, resp) ==
    IF ~Authenticated(cl) THEN <<>>
    ELSE IF resp.status = "ok" /\ resp.json /\ CheckApiResponse(resp.result) = "none"
            /\ resp.fileUrl
    THEN <<Request("download", NoTimeout), Request("file", NoTimeout)>>
    ELSE <<Request("download", NoTimeout)>>

\* a process holds a client and no manager
InitClient ==
    /\ now = 0
    /\ file = AbsentFile
    /\ ctor = [m \in Managers |-> "none"]
    /\ \E t \in Timeouts : client = [m \in Managers |-> IF m = "m1" THEN ClientOf(t) ELSE NewClient]
    /\ formats = [m \in Managers |-> <<>>]
    /\ state = [m \in Managers |-> NoState]
    /\ cur = "m1"
    /\ NoRunYet
    /\ fileAtStart = file
    /\ hist = NoHist
    /\ knows = [m \in Managers |-> FALSE]
    /\ aborted = [m \in Managers |-> {}]
    /\ NoAux

\* what the calls on the client leave alone
clientFrame ==
    <<now, file, ctor, formats, state, cur, exc, idx, fmt_idx, success, stats, obsVars,
      histVars, proc, saves>>

\* client.py:86-121: authenticate() called
ClientAuthenticate(m) ==
    /\ pc = "idle"
    /\ \E resp \in LoginResponses :
        LET r == Authenticate(client[m], resp)
        IN /\ client' = [client EXCEPT ![m] = r.client]
           /\ authOk' = [authOk EXCEPT ![m] = @ \/ r.exc = "none"]
           /\ call' = CallOf("authenticate", resp, r.exc, r.exc = "none", FALSE,
                             AuthenticateRequests(client[m]))
    /\ UNCHANGED <<clientFrame, pc, page, total_pages, raw, all_activities>>

\* the part of a listing answer the error handling reads
Envelope(resp) == [status |-> resp.status, result |-> resp.result]

\* client.py:153-170: get_activities returns; raws are all the records read
GetActivitiesReturns(raws, resp, reqs) ==
    /\ pc' = "idle"
    /\ page' = 0
    /\ total_pages' = 0
    /\ raw' = raws
    /\ all_activities' = ParseActivities(raws)
    /\ call' = CallOf("get_activities", Envelope(resp), "none", TRUE, FALSE, reqs)

\* an exception leaves get_activities
GetActivitiesRaises(e, resp, reqs) ==
    /\ pc' = "idle"
    /\ page' = 0
    /\ total_pages' = 0
    /\ all_activities' = <<>>
    /\ call' = CallOf("get_activities", Envelope(resp), e, FALSE, FALSE, reqs)

\* client.py:123-143: get_activities() called: the session check and the
\* first page
ClientGetActivities(m) ==
    /\ pc = "idle"
    /\ IF ~Authenticated(client[m])
       THEN /\ GetActivitiesRaises("CorosAPIError", ListingError("none", "none"), <<>>)
            /\ raw' = <<>>
       ELSE \E resp \in ListingResponses(PageRoom(<<>>), 1..MaxPages) :
            LET reqs == <<ListingRequest(client[m])>>
            IN IF PageOutcome(resp) # "none"
               THEN /\ GetActivitiesRaises(PageOutcome(resp), resp, reqs)
                    /\ raw' = <<>>
               ELSE IF resp.totalPage <= 1
               THEN GetActivitiesReturns(resp.dataList, resp, reqs)
               ELSE /\ pc' = "listing"
                    /\ page' = 2
                    /\ total_pages' = resp.totalPage
                    /\ raw' = resp.dataList
                    /\ all_activities' = <<>>
                    /\ call' = CallOf("get_activities", Envelope(resp), "none", FALSE,
                                      FALSE, reqs)
    /\ UNCHANGED <<clientFrame, client, authOk>>

\* client.py:145-151: the next of the pages 2..totalPage
ClientNextPage(m) ==
    /\ pc = "listing"
    /\ \E resp \in ListingResponses(PageRoom(raw), {1}) :
        LET reqs == Append(call.reqs, ListingRequest(client[m]))
        IN IF PageOutcome(resp) # "none"
           THEN /\ GetActivitiesRaises(PageOutcome(resp), resp, reqs)
                /\ UNCHANGED raw
           ELSE IF page >= total_pages
           THEN GetActivitiesReturns(raw \o resp.dataList, resp, reqs)
           ELSE /\ page' = page + 1
                /\ raw' = raw \o resp.dataList
                /\ call' = [call EXCEPT !.reqs = reqs, !.arg = Envelope(resp)]
                /\ UNCHANGED <<pc, total_pages, all_activities>>
    /\ UNCHANGED <<clientFrame, client, authOk>>

\* client.py:172-202: download_activity_file() called
ClientDownload(m) ==
    /\ pc = "idle"
    /\ \E resp \in DownloadResponses :
        LET r == DownloadActivityFile(client[m], resp)
        IN call' = CallOf("download_activity_file", resp, r.exc, r.ret, r.wrote,
                          DownloadRequests(client[m], resp))
    /\ UNCHANGED <<clientFrame, client, authOk, pc, page, total_pages, raw, all_activities>>

NextClient ==
    \/ ClientAuthenticate("m1")
    \/ ClientGetActivities("m1")
    \/ ClientNextPage("m1")
    \/ ClientDownload("m1")

SpecClient == InitClient /\ [][NextClient]_vars

\* ------------------------------------------------------- the command line

\* cli/backup.py:42-48: the values of --format click lets through: the
\* default, one format, a choice that is no ExportFormat, one format twice
CliFormatArgs == {<<"fit", "tcx">>, <<"gpx">>, <<"json">>, <<"fit", "fit">>}

\* cli/backup.py:23 and 133-134: main is a click command run in standalone
\* mode.  click discards the value the function returns and exits with
\* status 0; an exception that is not click's leaves main() and the
\* interpreter exits with status 1.
ExitStatus(ret, e) == IF e # "none" THEN 1 ELSE 0

\* the process ends
Exited(why, ret, e) == ProcOf("exited", <<>>, why, ret, e, ExitStatus(ret, e))

cliFrame == <<now, file, ctor, formats, state, runVars, obsVars, histVars, call, saves>>

\* cli/backup.py:74-87: main starts and converts the format names
CliStart(m) ==
    /\ proc.step \in {"none", "exited"}
    /\ now < MaxRuns
    /\ \E fa \in CliFormatArgs :
        IF Range(fa) \subseteq ExportFormats
        THEN proc' = ProcOf("formats", fa, "none", -1, "none", -1)
        ELSE \* ExportFormat(fmt) raises ValueError: return 1
             proc' = Exited("invalid_format", 1, "none")
    /\ UNCHANGED <<cliFrame, client, authOk>>

\* cli/backup.py:89-96: the client is created and authenticates
CliAuthenticate(m) ==
    /\ proc.step = "formats"
    /\ \E resp \in LoginResponses :
        LET r == Authenticate(NewClient, resp)
        IN IF r.exc = "none"
           THEN /\ proc' = [proc EXCEPT !.step = "authenticated"]
                /\ client' = [client EXCEPT ![m] = r.client]
                /\ authOk' = [authOk EXCEPT ![m] = TRUE]
           ELSE /\ proc' = IF r.exc = "CorosAuthError"
                           THEN Exited("auth_failed", 1, "none")
                           ELSE Exited("auth_raised", -1, r.exc)
                /\ UNCHANGED <<client, authOk>>
    /\ UNCHANGED cliFrame

\* cli/backup.py:100-104: BackupManager(client, backup_dir, formats)
CliConstruct(m) ==
    /\ proc.step = "authenticated"
    /\ ctor[m] = "none"
    /\ IF LoadState(file, now).exc = "none"
       THEN /\ proc' = [proc EXCEPT !.step = "backup"]
            /\ ctor' = [ctor EXCEPT ![m] = "ok"]
            /\ formats' = [formats EXCEPT ![m] = ConfiguredFormats(proc.formats)]
            /\ state' = [state EXCEPT ![m] = LoadState(file, now).state]
            /\ knows' = [knows EXCEPT ![m] = hist.inFile]
            /\ UNCHANGED <<client, authOk>>
       ELSE \* the exception is no CorosAPIError and leaves main
            /\ proc' = Exited("construct_raised", -1, LoadState(file, now).exc)
            /\ client' = [client EXCEPT ![m] = NewClient]
            /\ authOk' = [authOk EXCEPT ![m] = FALSE]
            /\ UNCHANGED <<ctor, formats, state, knows>>
    /\ UNCHANGED <<now, file, runVars, obsVars, hist, repeat, aborted, call, saves>>

\* cli/backup.py:107: run_backup() is called, once
CliRunBackup(m) ==
    /\ proc.step = "backup"
    /\ pc = "idle"
    /\ StartRun(m)

\* cli/backup.py:109-133: run_backup returned and main returns 0, or it
\* raised: a CorosAPIError is caught and main returns 1, any other
\* exception leaves main.  The process ends.
CliFinish(m) ==
    /\ proc.step = "backup"
    /\ pc \in {"returned", "raised"}
    /\ proc' = IF pc = "returned" THEN Exited("completed", 0, "none")
               ELSE IF exc = "CorosAPIError" THEN Exited("api_error", 1, "none")
               ELSE IF exc = "CorosAuthError" THEN Exited("token_expired", -1, exc)
               ELSE Exited("backup_raised", -1, exc)
    /\ ctor' = [ctor EXCEPT ![m] = "none"]
    /\ client' = [client EXCEPT ![m] = NewClient]
    /\ authOk' = [authOk EXCEPT ![m] = FALSE]
    /\ formats' = [formats EXCEPT ![m] = <<>>]
    /\ state' = [state EXCEPT ![m] = NoState]
    /\ knows' = [knows EXCEPT ![m] = FALSE]
    /\ aborted' = [aborted EXCEPT ![m] = {}]
    /\ ForgetRun
    /\ fileAtStart' = file
    /\ UNCHANGED <<now, file, cur, hist, call, saves>>

NextCli ==
    \/ CliStart("m1")
    \/ CliAuthenticate("m1")
    \/ CliConstruct("m1")
    \/ CliRunBackup("m1")
    \/ ListNextPage
    \/ ProcessActivity
    \/ DownloadFormat
    \/ FinishActivity
    \/ FinishRun
    \/ CliFinish("m1")

SpecCli == Init /\ [][NextCli]_vars

\* ------------------------------------------------------------ ActivityType

\* models.py:10-21: _SPORT_TYPE_MAP, in the order of the dictionary
SportTypeMap ==
    << <<100, "RUNNING">>, <<101, "TRAIL_RUNNING">>, <<200, "CYCLING">>,
       <<201, "MOUNTAIN_BIKING">>, <<300, "SWIMMING">>, <<301, "POOL_SWIM">>,
       <<104, "HIKING">>, <<402, "STRENGTH">>, <<904, "YOGA">>, <<500, "TRIATHLON">> >>

\* models.py:33-43: the members of ActivityType
ActivityTypes ==
    {"RUNNING", "TRAIL_RUNNING", "CYCLING", "MOUNTAIN_BIKING", "SWIMMING", "POOL_SWIM",
     "HIKING", "STRENGTH", "YOGA", "TRIATHLON", "OTHER"}

\* models.py:54: to_sport_type's None, as a code no vendor sends
NoCode == -1

SportCodes == (0..MaxCode) \cup {SportTypeMap[k][1] : k \in 1..Len(SportTypeMap)} \cup {999}

\* models.py:56-59: cls(value), with _missing_ for a value that is no member
ActivityTypeOf(value) == IF value \in ActivityTypes THEN value ELSE "OTHER"

\* models.py:45-48: from_sport_type
FromSportType(sport_type) ==
    LET hits == {k \in 1..Len(SportTypeMap) : SportTypeMap[k][1] = sport_type}
        type_name == IF hits = {} THEN "OTHER" ELSE SportTypeMap[CHOOSE k \in hits : TRUE][2]
    IN ActivityTypeOf(type_name)

\* to_sport_type returning the position in the table
ToSportTypeIndex(t) ==
    LET hits == {k \in 1..Len(SportTypeMap) : SportTypeMap[k][2] = t}
    IN IF hits = {} THEN NoCode ELSE CHOOSE k \in hits : \A j \in hits : k <= j

\* models.py:50-54: to_sport_type: the code of the first entry with the name
ToSportType(t) ==
    LET hits == {k \in 1..Len(SportTypeMap) : SportTypeMap[k][2] = t}
    IN IF hits = {} THEN NoCode
       ELSE SportTypeMap[CHOOSE k \in hits : \A j \in hits : k <= j][1]

\* a conversion and its outcome: the code, the type, and what converting
\* the outcome back gave
Conversion(code, type, code_back, type_back) ==
    [code |-> code, type |-> type, code_back |-> code_back, type_back |-> type_back]

typesFrame ==
    <<now, file, ctor, client, formats, state, runVars, obsVars, histVars, authOk, proc,
      saves>>

\* ActivityType.from_sport_type(code)
FromSportTypeCall ==
    /\ \E c \in SportCodes :
        call' = CallOf("from_sport_type", Conversion(c, FromSportType(c), NoCode, "none"),
                       "none", FALSE, FALSE, <<>>)
    /\ UNCHANGED typesFrame

\* t.to_sport_type()
ToSportTypeCall ==
    /\ \E t \in ActivityTypes :
        call' = CallOf("to_sport_type", Conversion(ToSportType(t), t, NoCode, "none"),
                       "none", FALSE, FALSE, <<>>)
    /\ UNCHANGED typesFrame

\* from_sport_type(code).to_sport_type()
ThenToSportType ==
    /\ call.op = "from_sport_type"
    /\ call' = [call EXCEPT !.op = "from_then_to",
                             !.arg.code_back = ToSportType(call.arg.type)]
    /\ UNCHANGED typesFrame

\* from_sport_type(t.to_sport_type())
ThenFromSportType ==
    /\ call.op = "to_sport_type"
    /\ call' = [call EXCEPT !.op = "to_then_from",
                             !.arg.type_back = FromSportType(call.arg.code)]
    /\ UNCHANGED typesFrame

InitTypes == Init /\ file = AbsentFile

NextTypes ==
    \/ FromSportTypeCall
    \/ ToSportTypeCall
    \/ ThenToSportType
    \/ ThenFromSportType

SpecTypes == InitTypes /\ [][NextTypes]_vars

\* ------------------------------------------------------------------ claims

DedupSet(m) == state[m].downloaded_activity_ids

\* C1: when the loop of run_backup reaches an activity whose id is in
\* downloaded_activity_ids, the step it takes only counts the activity as
\* skipped: no download_activity_file call, no metadata file.
C1_DedupNeverDownloads ==
    [][(pc = "loop" /\ idx <= Len(all_activities)
          /\ all_activities[idx] \in DedupSet(cur))
       => /\ calls' = calls
          /\ pc' = "loop"
          /\ idx' # idx => /\ idx' = idx + 1
                           /\ stats'.activities_skipped = stats.activities_skipped + 1
                           /\ stats'.activities_downloaded = stats.activities_downloaded
                           /\ state' = state]_vars

\* a run returned that skipped an activity after downloading another
C1_Witness ==
    /\ pc = "returned"
    /\ stats.activities_skipped > 0
    /\ stats.activities_downloaded > 0

\* what C2 says of the second of two runs
SecondRunDownloadsNothing ==
    /\ stats.activities_downloaded = 0
    /\ calls.download = 0
    /\ DedupSet(cur) = idsAtStart

\* C2 as stated: a run that follows a returned run, on the state that run
\* left and with the same listing, downloads nothing and leaves the dedup
\* set as it was.
C2_Original == (pc = "returned" /\ repeat # "no") => SecondRunDownloadsNothing

\* C2, amended: the same when the first run returned with
\* activities_failed = 0.
C2_IdempotentAfterCleanRun == repeat = "clean" => SecondRunDownloadsNothing

\* the second run returned, having skipped two activities
C2_Witness ==
    /\ pc = "returned"
    /\ repeat = "clean"
    /\ stats.activities_skipped = 2

\* the loop over the formats has ended for the activity at idx
ActivityDone == pc = "formats" /\ fmt_idx > Len(formats[cur]) /\ pc' = "loop"

\* C3: a new activity of which no format was downloaded is counted as
\* failed, its id is not added to the dedup set and
\* total_activities_backed_up is not incremented.
C3_TotalFailure ==
    [][(ActivityDone /\ okFmts = {})
       => /\ stats'.activities_failed = stats.activities_failed + 1
          /\ stats'.activities_downloaded = stats.activities_downloaded
          /\ state'[cur].downloaded_activity_ids = state[cur].downloaded_activity_ids
          /\ state'[cur].total_activities_backed_up
                = state[cur].total_activities_backed_up]_vars

\* C4: when format X failed and format Y was downloaded for a new activity,
\* the activity is marked downloaded, counted once, and formats_downloaded
\* is as it was for X.
C4_PartialFailure ==
    [][(ActivityDone /\ okFmts # {} /\ badFmts \ okFmts # {})
       => /\ all_activities[idx] \in state'[cur].downloaded_activity_ids
          /\ stats'.activities_downloaded = stats.activities_downloaded + 1
          /\ \A x \in badFmts \ okFmts :
                stats'.formats_downloaded[x] = fdBefore[x]]_vars

\* C5: no failure of a download leaves run_backup as an exception.
C5_DownloadNeverRaises == ~(pc = "raised" /\ calls.download > 0)

\* C6: a manager constructed on a directory whose checkpoint is absent or
\* not valid JSON is constructed without an exception and holds the fresh
\* state.
C6_CorruptStateRecovery ==
    [][\A m \in Managers :
        (ctor[m] = "none" /\ ctor'[m] # "none" /\ file.kind \in {"absent", "invalid_json"})
        => /\ ctor'[m] = "ok"
           /\ state'[m].downloaded_activity_ids = {}
           /\ state'[m].total_activities_backed_up = 0
           /\ state'[m].last_synced_activity_id = None
           /\ state'[m].last_backup_timestamp = now]_vars

\* a manager constructed on a checkpoint that is not valid JSON
C6_Witness ==
    /\ pc = "idle"
    /\ file.kind = "invalid_json"
    /\ Alive("m1")
    /\ DedupSet("m1") = {}

\* what C7 says of a run whose listing failed, but for the exception
ListingAborted ==
    /\ pc = "raised"
    /\ calls = NoCalls
    /\ file = fileAtStart

\* C7 as stated: a listing answer with a result code other than the
\* success code makes run_backup raise APIError, with no download, no
\* metadata file and the checkpoint file untouched.
C7_Original == listCode # "none" => (ListingAborted /\ exc = "CorosAPIError")

\* C7, amended: the exception is AuthError when the code is "1019" and
\* APIError for any other code.
C7_ListingFailure ==
    listCode # "none"
    => /\ ListingAborted
       /\ exc = IF listCode = "1019" THEN "CorosAuthError" ELSE "CorosAPIError"

\* a follow-up page failed, on a directory that held a checkpoint
C7_Witness ==
    /\ listCode = "5000"
    /\ total_pages > 1
    /\ pc = "raised"
    /\ fileAtStart.kind = "object"

\* C8: a run_backup whose listing succeeded ends with the timestamp set to
\* the current time and the checkpoint written.
C8_AlwaysPersists ==
    (listed /\ pc \in {"returned", "raised"})
    => /\ saved # "none"
       /\ state[cur].last_backup_timestamp = now

\* the case of C9: no checkpoint, a fresh manager, pairwise distinct ids,
\* every download returned True
FirstRunAllSucceeded ==
    /\ pc = "returned"
    /\ fileAtStart.kind = "absent"
    /\ idsAtStart = {}
    /\ Cardinality(Range(all_activities)) = Len(all_activities)
    /\ calls.allTrue
    /\ calls.download = Len(all_activities) * Len(formats[cur])

FirstRunCounts ==
    /\ stats.activities_found = Len(all_activities)
    /\ stats.activities_downloaded = Len(all_activities)
    /\ stats.activities_skipped = 0
    /\ stats.activities_failed = 0
    /\ Cardinality(DedupSet(cur)) = Len(all_activities)

\* C9 as stated: found = downloaded = N, skipped = failed = 0, the dedup
\* set has N entries and each configured format counts N.
C9_Original ==
    FirstRunAllSucceeded
    => /\ FirstRunCounts
       /\ \A f \in Range(formats[cur]) : stats.formats_downloaded[f] = Len(all_activities)

\* C9, amended: a configured format counts N times the number of times it
\* is configured.
C9_FirstRun ==
    FirstRunAllSucceeded
    => /\ FirstRunCounts
       /\ \A f \in ExportFormats :
            stats.formats_downloaded[f] = Len(all_activities) * Count(formats[cur], f)

\* two activities, two formats
C9_Witness ==
    /\ FirstRunAllSucceeded
    /\ Len(all_activities) = 2
    /\ formats[cur] = DefaultFormats

\* C10: a manager constructed on the file a successful _save_state wrote
\* holds the dedup set, the total and the last synced id of the saved state.
C10_RoundTrip ==
    [][(ctor["m2"] = "none" /\ ctor'["m2"] # "none" /\ saved = "ok")
       => /\ ctor'["m2"] = "ok"
          /\ state'["m2"].downloaded_activity_ids = state["m1"].downloaded_activity_ids
          /\ state'["m2"].total_activities_backed_up
                = state["m1"].total_activities_backed_up
          /\ state'["m2"].last_synced_activity_id
                = state["m1"].last_synced_activity_id]_vars

\* a state whose total is not the size of its dedup set, reloaded
C10_Witness ==
    /\ Alive("m2")
    /\ saved = "ok"
    /\ DedupSet("m2") = ActivityIds
    /\ state["m2"].total_activities_backed_up = 0
    /\ state["m2"].last_synced_activity_id = None

\* C11: activities_found of a run_backup never exceeds the page size the
\* client asks for (200 in the code, MaxSize here), however many pages the
\* vendor reports.
C11_FoundAtMostPageSize == stats.activities_found <= MaxSize

\* the last call on the client was get_activities or download_activity_file
DataCall == call.op \in {"get_activities", "download_activity_file"}

\* C12: on a client on which authenticate has never returned True,
\* get_activities and download_activity_file raise APIError, send no HTTP
\* request and write no file.
C12_AuthenticationFirst ==
    (DataCall /\ ~authOk["m1"])
    => /\ call.exc = "CorosAPIError"
       /\ call.reqs = <<>>
       /\ ~call.wrote

\* the first answer of a download carried no file URL
NoFileUrl ==
    /\ call.op = "download_activity_file"
    /\ call.reqs # <<>>
    /\ call.arg.status = "ok"
    /\ \/ ~call.arg.json
       \/ call.arg.result = "0000" /\ ~call.arg.fileUrl

\* C13: when the first answer carries no file URL, download_activity_file
\* returns False without raising and without writing the destination file.
C13_NoUrlReturnsFalse ==
    NoFileUrl => (call.exc = "none" /\ call.ret = FALSE /\ ~call.wrote)

\* the last call got an answer whose result code _check_api_response read:
\* a listing page, or the JSON envelope of a download
CodeChecked ==
    /\ DataCall
    /\ call.reqs # <<>>
    /\ call.arg.status = "ok"
    /\ call.op = "download_activity_file" => call.arg.json

\* C14: on listing and download answers, result code "0000" raises nothing
\* (of a download: nothing before the request to the file URL), "1019"
\* raises AuthError, and every other code, an absent one included, raises
\* APIError.
C14_ErrorTaxonomy ==
    CodeChecked
    => IF call.arg.result = "0000"
       THEN \/ call.exc = "none"
            \/ /\ call.op = "download_activity_file"
               /\ Len(call.reqs) = 2
               /\ call.exc = "HTTPError"
       ELSE IF call.arg.result = "1019" THEN call.exc = "CorosAuthError"
       ELSE call.exc = "CorosAPIError"

\* a listing page answered with code 1019 after a page that succeeded
C14_Witness ==
    /\ call.op = "get_activities"
    /\ Len(call.reqs) = 2
    /\ call.arg.result = "1019"
    /\ call.exc = "CorosAuthError"

\* C15: when authenticate is called on a client that holds no session and
\* the login answer's result code is not the success code or the transport
\* fails, authenticate raises AuthError and the client still holds no
\* session; get_activities and download_activity_file called on a client
\* without a session raise APIError and send nothing.
C15_FailedLoginStaysOut ==
    [][/\ (/\ ~Authenticated(client["m1"])
           /\ call' # call
           /\ call'.op = "authenticate"
           /\ (call'.arg.status = "err" \/ call'.arg.result # "0000"))
          => /\ call'.exc = "CorosAuthError"
             /\ ~Authenticated(client'["m1"])
       /\ (/\ ~Authenticated(client["m1"])
           /\ call' # call
           /\ call'.op \in {"get_activities", "download_activity_file"})
          => /\ call'.exc = "CorosAPIError"
             /\ call'.reqs = <<>>
             /\ ~call'.wrote]_vars

\* a login that failed on its result code, on a client without a session
C15_Witness ==
    /\ call.op = "authenticate"
    /\ call.arg.result = "5000"
    /\ call.exc = "CorosAuthError"
    /\ ~Authenticated(client["m1"])

\* the codes of the mapping table
MappedCodes == {SportTypeMap[k][1] : k \in 1..Len(SportTypeMap)}

\* C16: a code outside the table maps to OTHER; OTHER converts to no code;
\* from_sport_type(c).to_sport_type() = c for every code c of the table;
\* from_sport_type(t.to_sport_type()) = t for every type t but OTHER.
C16_TypeMapping ==
    /\ (call.op \in {"from_sport_type", "from_then_to"} /\ call.arg.code \notin MappedCodes)
       => call.arg.type = "OTHER"
    /\ (call.op = "to_sport_type" /\ call.arg.type = "OTHER") => call.arg.code = NoCode
    /\ (call.op = "from_then_to" /\ call.arg.code \in MappedCodes)
       => call.arg.code_back = call.arg.code
    /\ (call.op = "to_then_from" /\ call.arg.type # "OTHER")
       => call.arg.type_back = call.arg.type

\* code 904, the ninth entry of the table, converted to YOGA and back
C16_Witness ==
    /\ call.op = "from_then_to"
    /\ call.arg.code = 904
    /\ call.arg.type = "YOGA"
    /\ call.arg.code_back = 904

\* C17: the command exits with status 0 when the backup completes, and
\* with status 1 when authentication fails, when a selected format is no
\* ExportFormat, and when run_backup raises an API error or the
\* expired-token error.
C17_ExitStatus ==
    proc.step = "exited"
    => /\ proc.why = "completed" => proc.code = 0
       /\ proc.why \in {"auth_failed", "invalid_format", "api_error", "token_expired"}
          => proc.code = 1

\* the checkpoint write of the run that returned failed
WriteFailed == pc = "returned" /\ saved \in {"open_failed", "write_failed"}

\* C18: when the checkpoint write at the end of a run fails, run_backup
\* returns its statistics without raising, the manager's state keeps the
\* run's updates (the timestamp, and one id and one count per activity
\* downloaded), and the file holds none of them: it is as it was before the
\* run, or cut short and unreadable.
C18_WriteFailureSwallowed ==
    WriteFailed
    => /\ exc = "none"
       /\ stats.activities_found = Len(all_activities)
       /\ state[cur].last_backup_timestamp = now
       /\ idsAtStart \subseteq DedupSet(cur)
       /\ Cardinality(DedupSet(cur) \ idsAtStart) = stats.activities_downloaded
       /\ file \in {fileAtStart, InvalidJsonFile}
       /\ LoadState(file, now).state.downloaded_activity_ids \subseteq idsAtStart

\* the write failed after the run downloaded two activities
C18_Witness ==
    /\ WriteFailed
    /\ stats.activities_downloaded = 2
    /\ DedupSet(cur) = ActivityIds

\* get_activities returned
ListingReturned == call.op = "get_activities" /\ pc = "idle" /\ call.exc = "none"

\* C19: what get_activities returns is the raw records of all the pages
\* read, in the order read, without those whose conversion fails: as many
\* entries as records that convert, the j-th being the j-th of them.
C19_ConvertibleSubsequence ==
    ListingReturned
    => LET good == {k \in 1..Len(raw) : Converts(raw[k])}
           nth(j) == CHOOSE k \in good : Cardinality({i \in good : i < k}) = j - 1
       IN /\ Len(all_activities) = Cardinality(good)
          /\ \A j \in 1..Len(all_activities) : all_activities[j] = raw[nth(j)].labelId

\* two pages: a record without labelId on the first, activity a1 on the second
C19_Witness ==
    /\ ListingReturned
    /\ Len(call.reqs) = 2
    /\ Len(raw) = 2
    /\ ~Converts(raw[1])
    /\ all_activities = <<"a1">>

\* C20: every HTTP request the client sends is given the client's timeout.
C20_EveryRequestTimed ==
    \A k \in 1..Len(call.reqs) : call.reqs[k].timeout = client["m1"].timeout

\* C21: a manager constructed on a checkpoint that cannot be loaded as a
\* state record (no file content json.load accepts, an object without
\* last_backup_timestamp, a timestamp that is not ISO, JSON that is no
\* object) is constructed without an exception and holds the fresh state.
C21_NoParseFailureCrashes ==
    [][\A m \in Managers :
        (ctor[m] = "none" /\ ctor'[m] # "none" /\ file.kind \notin {"absent", "object"})
        => /\ ctor'[m] = "ok"
           /\ state'[m].downloaded_activity_ids = {}
           /\ state'[m].total_activities_backed_up = 0
           /\ state'[m].last_synced_activity_id = None]_vars

\* the ids a manager constructed on the checkpoint file now would hold
IdsInFile == IF file.kind = "object" THEN Range(file.downloaded_activity_ids) ELSE {}

\* C22: the checkpoint file changes only in the step that ends a
\* run_backup whose loop went through every fetched activity, so once per
\* run at most; when a run has raised, the file is as it was when the run
\* started and holds none of the ids the run added to the dedup set.
C22_SavedOnlyAtEnd ==
    [][/\ file' # file
          => /\ pc = "loop"
             /\ idx > Len(all_activities)
             /\ pc' = "returned"
       /\ pc' = "raised"
          => /\ file' = fileAtStart'
             /\ (state'[cur'].downloaded_activity_ids \ idsAtStart') \cap IdsInFile' = {}]_vars

\* a run raised while processing its second activity, after it had
\* downloaded the first
C22_Witness ==
    /\ pc = "raised"
    /\ calls.download > 0
    /\ idx = 2
    /\ DedupSet(cur) \ idsAtStart # {}
    /\ file = fileAtStart

\* manager m completes a checkpoint write that succeeds
Saves(m) == saves.pending[m] # NoPending /\ saves'.pending[m] = NoPending /\ saves'.ok

\* the file holds the state of manager m
FileIsStateOf(m) ==
    /\ file'.kind = "object"
    /\ Range(file'.downloaded_activity_ids) = state[m].downloaded_activity_ids
    /\ file'.total_activities_backed_up = state[m].total_activities_backed_up
    /\ file'.last_synced_activity_id = state[m].last_synced_activity_id

\* C23 as stated: with two managers on one directory, after a manager
\* completes its save the checkpoint file is the state of that manager,
\* without the ids only the other one holds.
C23_Original == [][\A m \in Managers : Saves(m) => FileIsStateOf(m)]_vars

\* C23, amended: the same when no other manager opened or wrote the file
\* between this manager's open and its write.
C23_LastWriterWins ==
    [][\A m \in Managers : (Saves(m) /\ ~saves'.overlap) => FileIsStateOf(m)]_vars

\* both managers loaded the empty directory, m1 downloaded a1 and saved,
\* then m2 saved without it
C23_Witness ==
    /\ saves.savers = Managers
    /\ saves.last = "m2"
    /\ saves.ok
    /\ ~saves.overlap
    /\ saves.pending = NoSaves.pending
    /\ "a1" \in DedupSet("m1")
    /\ "a1" \notin DedupSet("m2")
    /\ "a1" \notin IdsInFile

\* C24: when run_backup returns, activities_found is the sum of
\* activities_skipped, activities_downloaded and activities_failed.
C24_StatsConservation ==
    pc = "returned"
    => stats.activities_found
         = stats.activities_skipped + stats.activities_downloaded + stats.activities_failed

\* a listing with the same id twice: one downloaded or failed, one skipped
\* or failed
C24_Witness ==
    /\ pc = "returned"
    /\ Len(all_activities) = 2
    /\ all_activities[1] = all_activities[2]
    /\ stats.activities_skipped = 1
    /\ stats.activities_downloaded = 1

\* the total is the size of the dedup set and the last synced id is None
\* or in the set
Consistent(total, last, ids) == total = Cardinality(ids) /\ last \in ids \cup {None}

\* C25: on a directory that started without a checkpoint, every manager's
\* state and every checkpoint file written have
\* total_activities_backed_up equal to the size of downloaded_activity_ids
\* and last_synced_activity_id None or a member of it.
C25_TotalIsSetSize ==
    /\ \A m \in Managers :
          Alive(m) => Consistent(state[m].total_activities_backed_up,
                                 state[m].last_synced_activity_id,
                                 state[m].downloaded_activity_ids)
    /\ file.kind = "object"
       => /\ Consistent(file.total_activities_backed_up, file.last_synced_activity_id,
                        Range(file.downloaded_activity_ids))
          /\ Len(file.downloaded_activity_ids) = file.total_activities_backed_up

\* a second run, on a checkpoint that listed one activity, downloaded the
\* other and wrote a checkpoint listing both
C25_Witness ==
    /\ pc = "returned"
    /\ saved = "ok"
    /\ fileAtStart.kind = "object"
    /\ fileAtStart.total_activities_backed_up = 1
    /\ file.total_activities_backed_up = 2
    /\ state[cur].total_activities_backed_up = 2

\* C26: a run that raises leaves in the manager's dedup set every id it
\* added, and none of them in the checkpoint file; the counter moves by
\* one for each id that enters the dedup set and never otherwise; a later
\* run of the same manager skips such an id without any request, and the
\* checkpoint it writes lists each of them once, with the manager's count.
C26_NoRollback ==
    [][/\ pc' = "raised" /\ ctor'[cur'] = "ok"
          => /\ (state'[cur'].downloaded_activity_ids \ idsAtStart') \subseteq aborted'[cur']
             /\ aborted'[cur'] \subseteq state'[cur'].downloaded_activity_ids
             /\ aborted'[cur'] \cap IdsInFile' = {}
       /\ \A m \in Managers :
             ctor[m] = "ok" /\ ctor'[m] = "ok"
             => state'[m].total_activities_backed_up - state[m].total_activities_backed_up
                = Cardinality(state'[m].downloaded_activity_ids
                              \ state[m].downloaded_activity_ids)
       /\ /\ pc = "loop"
          /\ idx <= Len(all_activities)
          /\ <<pc, idx, stats, calls>>' # <<pc, idx, stats, calls>>
          => (all_activities[idx] \in aborted[cur]
              => /\ calls' = calls
                 /\ state' = state
                 /\ idx' = idx + 1
                 /\ stats'.activities_skipped = stats.activities_skipped + 1)
       /\ pc = "loop" /\ pc' = "returned" /\ saved' = "ok"
          => /\ aborted[cur] \subseteq IdsInFile'
             /\ Len(file'.downloaded_activity_ids) = Cardinality(IdsInFile')
             /\ file'.total_activities_backed_up
                = state'[cur'].total_activities_backed_up]_vars

\* a run raised after it had downloaded an activity; the next run of the
\* same manager skipped that activity and wrote it to the checkpoint
C26_Witness ==
    /\ pc = "returned"
    /\ saved = "ok"
    /\ aborted[cur] # {}
    /\ stats.activities_skipped > 0
    /\ calls.download = 0
    /\ aborted[cur] \cap IdsInFile # {}
    /\ fileAtStart.kind = "object" => aborted[cur] \cap Range(fileAtStart.downloaded_activity_ids) = {}

\* C27: after any sequence of authenticate calls the client holds an
\* access token exactly when it holds a user id, and no listing or download
\* request is sent by a client that holds no user id.
C27_SessionAtomic ==
    /\ (client["m1"].accesstoken # None) <=> (client["m1"].user_id # None)
    /\ (DataCall /\ call.reqs # <<>>) => client["m1"].user_id # None

====
